---- MODULE Spec2Model ----
(***************************************************************************)
(* Model of src/environmental_rf_module.py (class EnvironmentalRFFactors): *)
(* the 600-second weather cache, the HTTP fetch with its fallback to a     *)
(* simulated snapshot, the response parser, the three estimators and the   *)
(* aggregator; and, each under a specification of its own, of              *)
(* SimpleRFAmplifier (src/rf_amplification_module.py), SDRHardwareMonitor  *)
(* (src/sdr_hardware_monitor.py) with the GUI's emergency_shutdown         *)
(* callback (src/emf_chaos_engine.py), and AirTagTracker                   *)
(* (src/airtag_tracker.py).                                                *)
(*                                                                         *)
(* Numbers.  Python floats are modelled in fixed point:                    *)
(*   wind_speed       tenths of m/s        temperature  tenths of deg C    *)
(*   humidity         percent              pressure     hPa                *)
(*   wind_direction   degrees              visibility   tenths of km       *)
(*   every rounded estimator output        thousandths (round(x, 3))       *)
(* round(x, 3) is evaluated on the exact rational value, ties to even; a    *)
(* float that sits on a tie may land on either neighbouring thousandth.    *)
(* Time is in whole seconds.                                                *)
(***************************************************************************)
EXTENDS Integers, Sequences, FiniteSets, TLC

VARIABLES
    now,                  \* the wall clock read by time.time() / datetime.now()
    last_weather_update,  \* self.last_weather_update
    weather_cache,        \* self.weather_cache: <<>> for {}, else <<snapshot>>
    call,                 \* the last completed call (<<>> before the first)
    prev,                 \* summary of the call before it (<<>> if none)
    reqs,                 \* times of the last two HTTP requests issued
    pc,                   \* per thread: position inside fetch_weather_data
    tcur,                 \* per thread: its local current_time
    tret,                 \* per thread: what its call returned (<<>> before)
    nreq,                 \* HTTP requests issued by the threads of one burst
    snap,                 \* estimator input under test
    est,                  \* estimator outputs for snap (<<>> before the call)
    detected_devices,     \* SimpleRFAmplifier: the device list passed in
    base_intensity,       \* SimpleRFAmplifier: the intensity passed in
    amp_data,             \* what calculate_amplification returned (<<>> before)
    amp_summary,          \* what get_amplification_summary returned
    is_monitoring,        \* SDRHardwareMonitor.is_monitoring
    hackrf_detected,      \* SDRHardwareMonitor.hackrf_detected
    consecutive_failures, \* SDRHardwareMonitor.consecutive_failures
    monitor_thread,       \* SDRHardwareMonitor.monitor_thread: 0 for None
    callback_on_disconnect, \* which callback the monitor was built with
    attached,             \* the HackRF answers hackrf_info
    loop_pc,              \* per monitor thread: position in _monitor_loop
    cb_calls,             \* per monitor thread: callback invocations (0, 1, 2+)
    cb_ended,             \* per monitor thread: how its last callback ended
    checked_after_cb,     \* per monitor thread: it checked after a callback
    streak,               \* failed loop checks since the last successful one
    stopped,              \* per monitor thread: stop_monitoring was called
                          \* while it was in the loop ("stopped"), and it
                          \* passed the while test afterwards ("resumed")
    shutdown,             \* how far emergency_shutdown got
    chaos_running,        \* the GUI's chaos thread is running
    sdr_last,             \* the last call made on the monitor by the GUI thread
    detected_trackers,    \* AirTagTracker.detected_trackers: id -> tracker
    blocked_trackers,     \* AirTagTracker.blocked_trackers
    tag_last              \* the last AirTagTracker call and what it left

envVars == <<now, last_weather_update, weather_cache, call, prev, reqs,
             pc, tcur, tret, nreq, snap, est>>
ampVars == <<detected_devices, base_intensity, amp_data, amp_summary>>

\* The variables of the other modules, which no method of
\* EnvironmentalRFFactors touches
sdrVars == <<is_monitoring, hackrf_detected, consecutive_failures,
             monitor_thread, callback_on_disconnect, attached, loop_pc,
             cb_calls, cb_ended, checked_after_cb, streak, stopped, shutdown,
             chaos_running, sdr_last>>

tagVars == <<detected_trackers, blocked_trackers, tag_last>>

otherVars == <<ampVars, sdrVars, tagVars>>

vars == <<envVars, otherVars>>

-----------------------------------------------------------------------------
(* Bounds of the model *)

Epoch     == 1000   \* clock value at construction (time.time() is far above 600)
MaxSpan   == 1205   \* the clock runs from Epoch to Epoch + MaxSpan
NThreads  == 2      \* concurrent callers of fetch_weather_data
BurstSpan == 2      \* seconds the clock may advance while the threads run
MaxStep   == 22     \* sampled humidities are 5 * (-2 .. MaxStep) percent

MaxBatch  == 2      \* trackers in one scan result
MaxLoops  == 2      \* monitor threads that start_monitoring may create
MaxCount  == 5      \* consecutive_failures is followed up to this value

(* Program constants *)

CacheTTL  == 600    \* seconds a stored snapshot is served
DaySecs   == 86400  \* "%H:%M:%S" repeats every day

-----------------------------------------------------------------------------
(* JSON values as the parser sees them *)

Num(n)  == [k |-> "num", n |-> n]
Null    == [k |-> "null", n |-> 0]      \* present, but None
Str     == [k |-> "str", n |-> 0]       \* present, but a string
Missing == [k |-> "missing", n |-> 0]   \* key absent

IsNum(v) == v.k = "num"

\* dict.get(key, default): the default only when the key is absent
Get(v, default) == IF v.k = "missing" THEN Num(default) ELSE v

Wind(speed, deg) == [k |-> "obj", speed |-> speed, deg |-> deg]
NoWind(kind)     == [k |-> kind, speed |-> Missing, deg |-> Missing]
Main(h, t, p)    == [k |-> "obj", humidity |-> h, temp |-> t, pressure |-> p]
NoMain(kind)     == [k |-> kind, humidity |-> Missing, temp |-> Missing,
                     pressure |-> Missing]

Body(wind, main, vis) ==
    [k |-> "obj", wind |-> wind, main |-> main, visibility |-> vis]
NoBody(kind) ==
    [k |-> kind, wind |-> NoWind("missing"), main |-> NoMain("missing"),
     visibility |-> Missing]

FullWind == Wind(Num(50), Num(270))
FullMain == Main(Num(70), Num(200), Num(1013))

\* What requests.get can produce.  status 0 stands for an exception raised by
\* requests.get itself (timeout, connection error).
Responses ==
    { [name |-> "timeout",   status |-> 0,   body |-> NoBody("none")],
      [name |-> "http401",   status |-> 401, body |-> NoBody("obj")],
      [name |-> "notjson",   status |-> 200, body |-> NoBody("notjson")],
      [name |-> "nonobject", status |-> 200, body |-> NoBody("nonobj")],
      [name |-> "full",      status |-> 200,
       body |-> Body(FullWind, FullMain, Num(10000))],
      [name |-> "full2",     status |-> 200,
       body |-> Body(Wind(Num(120), Num(45)), Main(Num(30), Num(50), Num(990)),
                     Num(5000))],
      [name |-> "deg360",    status |-> 200,
       body |-> Body(Wind(Num(50), Num(360)), FullMain, Num(10000))],
      [name |-> "empty",     status |-> 200, body |-> NoBody("obj")],
      [name |-> "nospeed",   status |-> 200,
       body |-> Body(Wind(Missing, Num(90)), FullMain, Num(10000))],
      [name |-> "nopressure", status |-> 200,
       body |-> Body(FullWind, Main(Num(70), Num(200), Missing), Num(10000))],
      [name |-> "novis",     status |-> 200,
       body |-> Body(FullWind, FullMain, Missing)],
      [name |-> "nullwind",  status |-> 200,
       body |-> Body(NoWind("null"), FullMain, Num(10000))],
      [name |-> "nullvis",   status |-> 200,
       body |-> Body(FullWind, FullMain, Null)],
      [name |-> "nullspeed", status |-> 200,
       body |-> Body(Wind(Null, Num(270)), FullMain, Num(10000))],
      [name |-> "strhumidity", status |-> 200,
       body |-> Body(FullWind, Main(Str, Num(200), Num(1013)), Num(10000))] }

\* The random draws of one generate_simulated_weather call:
\* <<base_wind_dir, wind_variation, wind_speed, humidity, temperature,
\*   pressure, visibility>>
SimDraws ==
    { <<240, -20, 15, 55, 180, 1012, 100>>,
      <<280,  20, 65, 85, 280, 1018, 200>> }

-----------------------------------------------------------------------------
(* WeatherSource *)

LocationName == "San Diego Hillcrest, CA"

\* datetime.now().strftime("%H:%M:%S"): the time of day, in seconds
strftime(t) == t % DaySecs

\* response.json() raises, or a .get / division inside parse_weather_data does
ParseRaises(data) ==
    \/ data.k # "obj"
    \/ data.wind.k = "null"
    \/ data.main.k = "null"
    \/ data.visibility.k \in {"null", "str"}

parse_weather_data(data, t) ==
    LET wind == data.wind
        main == data.main
    IN  [wind_speed     |-> IF wind.k = "missing" THEN Num(0)
                            ELSE Get(wind.speed, 0),
         wind_direction |-> IF wind.k = "missing" THEN Num(0)
                            ELSE Get(wind.deg, 0),
         humidity       |-> IF main.k = "missing" THEN Num(50)
                            ELSE Get(main.humidity, 50),
         temperature    |-> IF main.k = "missing" THEN Num(200)
                            ELSE Get(main.temp, 200),
         pressure       |-> IF main.k = "missing" THEN Num(1013)
                            ELSE Get(main.pressure, 1013),
         visibility     |-> Num(Get(data.visibility, 10000).n \div 100),
         timestamp      |-> strftime(t),
         location       |-> LocationName,
         simulated      |-> FALSE]     \* the parsed dict has no 'simulated' key

generate_simulated_weather(d, t) ==
    [wind_speed     |-> Num(d[3]),
     wind_direction |-> Num((d[1] + d[2]) % 360),
     humidity       |-> Num(d[4]),
     temperature    |-> Num(d[5]),
     pressure       |-> Num(d[6]),
     visibility     |-> Num(d[7]),
     timestamp      |-> strftime(t),
     location       |-> LocationName,
     simulated      |-> TRUE]

\* A JSON object in which one of wind.speed, wind.deg, main.humidity, main.temp,
\* main.pressure, visibility is absent
FieldMissing(data) ==
    /\ data.k = "obj"
    /\ \/ data.wind.k = "missing"
       \/ data.wind.k = "obj" /\ "missing" \in {data.wind.speed.k, data.wind.deg.k}
       \/ data.main.k = "missing"
       \/ data.main.k = "obj" /\ "missing" \in {data.main.humidity.k,
                                                data.main.temp.k,
                                                data.main.pressure.k}
       \/ data.visibility.k = "missing"

\* Mutant: the age test includes the 600th second
CacheFreshInclusive(current_time, last, cache) ==
    current_time - last <= CacheTTL /\ cache # <<>>

\* line 41: the cached snapshot is served
CacheFresh(current_time, last, cache) ==
    current_time - last < CacheTTL /\ cache # <<>>

\* Mutant: the status code is not looked at
StoresLiveAnyStatus(resp) == ~ParseRaises(resp.body)

\* Mutant: a response with an absent field is rejected
StoresLiveStrict(resp) ==
    resp.status = 200 /\ ~ParseRaises(resp.body) /\ ~FieldMissing(resp.body)

\* A response that is stored as a live snapshot (lines 56-60)
StoresLive(resp) == resp.status = 200 /\ ~ParseRaises(resp.body)

\* Mutant: the fallback snapshot is stored in the cache like a live one
fetch_weather_data_caching_fallback(current_time, last, cache, resp, draw) ==
    IF CacheFresh(current_time, last, cache)
    THEN [ret |-> cache[1], requested |-> FALSE, attempts |-> 0,
          source |-> "cache", cache |-> cache, last |-> last]
    ELSE LET w == IF StoresLive(resp)
                  THEN parse_weather_data(resp.body, current_time)
                  ELSE generate_simulated_weather(draw, current_time)
         IN  [ret |-> w, requested |-> TRUE, attempts |-> 1,
              source |-> IF StoresLive(resp) THEN "live" ELSE "simulated",
              cache |-> <<w>>, last |-> current_time]

\* Mutant: a failed request is sent once more before falling back
fetch_weather_data_retrying(current_time, last, cache, resp, draw) ==
    IF CacheFresh(current_time, last, cache)
    THEN [ret |-> cache[1], requested |-> FALSE, attempts |-> 0,
          source |-> "cache", cache |-> cache, last |-> last]
    ELSE IF StoresLive(resp)
    THEN LET w == parse_weather_data(resp.body, current_time)
         IN  [ret |-> w, requested |-> TRUE, attempts |-> 1,
              source |-> "live", cache |-> <<w>>, last |-> current_time]
    ELSE [ret |-> generate_simulated_weather(draw, current_time),
          requested |-> TRUE, attempts |-> 2, source |-> "simulated",
          cache |-> cache, last |-> last]

\* One whole call of fetch_weather_data at time current_time, given what
\* requests.get would answer and what the random generator would draw.
fetch_weather_data(current_time, last, cache, resp, draw) ==
    IF CacheFresh(current_time, last, cache)
    THEN [ret |-> cache[1], requested |-> FALSE, attempts |-> 0,
          source |-> "cache", cache |-> cache, last |-> last]
    ELSE IF StoresLive(resp)
    THEN LET w == parse_weather_data(resp.body, current_time)
         IN  [ret |-> w, requested |-> TRUE, attempts |-> 1,
              source |-> "live", cache |-> <<w>>, last |-> current_time]
    ELSE [ret |-> generate_simulated_weather(draw, current_time),
          requested |-> TRUE, attempts |-> 1, source |-> "simulated",
          cache |-> cache, last |-> last]

-----------------------------------------------------------------------------
(* Fixed-point helpers *)

Abs(x) == IF x < 0 THEN -x ELSE x
Min(a, b) == IF a < b THEN a ELSE b
Max(a, b) == IF a > b THEN a ELSE b

\* n / d rounded to the nearest integer, ties to the even one (d > 0)
Round(n, d) ==
    LET q == n \div d
        r == n - q * d
    IN  IF 2 * r < d THEN q
        ELSE IF 2 * r > d THEN q + 1
        ELSE IF q % 2 = 0 THEN q ELSE q + 1

\* 10000 * cos of 0, 5, ..., 90 degrees
CosTable ==
    <<10000, 9962, 9848, 9659, 9397, 9063, 8660, 8192, 7660, 7071,
      6428, 5736, 5000, 4226, 3420, 2588, 1736, 872, 0>>

\* 10000 * math.cos(math.radians(a) - math.radians(b)) for a - b = deg,
\* a multiple of 5
Cos(deg) ==
    LET m == deg % 360
    IN  IF m <= 90 THEN CosTable[m \div 5 + 1]
        ELSE IF m <= 180 THEN -CosTable[(180 - m) \div 5 + 1]
        ELSE IF m <= 270 THEN -CosTable[(m - 180) \div 5 + 1]
        ELSE CosTable[(360 - m) \div 5 + 1]

-----------------------------------------------------------------------------
(* Estimators.  Each reads numeric fields of the snapshot: a field that is    *)
(* None or a string makes the arithmetic raise TypeError.                     *)

ZoneAngles == {0, 45, 90, 135, 180, 225, 270, 315}   \* range(0, 360, 45)

WindRaises(weather) ==
    ~IsNum(weather.wind_speed) \/ ~IsNum(weather.wind_direction)
HumidityRaises(weather) ==
    ~IsNum(weather.humidity) \/ ~IsNum(weather.temperature)
DuctingRaises(weather) ==
    ~IsNum(weather.pressure) \/ ~IsNum(weather.humidity)
        \/ ~IsNum(weather.temperature)

\* Mutant: min(..., 1.0) is left out
turbulence_factor_unclamped(wind_speed) == wind_speed

\* min(wind_speed / 10.0, 1.0), in hundredths
turbulence_factor(wind_speed) == Min(wind_speed, 100)

\* Mutant: the coefficients 0.15 and 0.08 are exchanged
zone_factor_exchanged(wind_direction, turbulence, zone_angle) ==
    LET alignment == Cos(wind_direction - zone_angle)
    IN  IF alignment > 0
        THEN 1000 + Round(alignment * turbulence * 8, 100000)
        ELSE 1000 + Round(alignment * turbulence * 15, 100000)

\* lines 120-128: one sector's factor
zone_factor(wind_direction, turbulence, zone_angle) ==
    LET alignment == Cos(wind_direction - zone_angle)
    IN  IF alignment > 0
        THEN 1000 + Round(alignment * turbulence * 15, 100000)
        ELSE 1000 + Round(alignment * turbulence * 8, 100000)

calculate_wind_rf_impact(weather) ==
    LET turbulence == turbulence_factor(weather.wind_speed.n)
    IN  [turbulence_factor |-> turbulence * 10,
         primary_enhancement_direction |-> weather.wind_direction.n,
         zone_factors |->
            [z \in ZoneAngles |->
                zone_factor(weather.wind_direction.n, turbulence, z)],
         overall_impact |-> 1000 + turbulence]

\* 1.0 - humidity_factor * 0.06, in ten-thousandths
range_factor(humidity) == 10000 - 6 * humidity

\* Mutant: overall_impact is the range factor alone, without the multipath gain
calculate_humidity_rf_impact_range_only(weather) ==
    LET humidity    == weather.humidity.n
        temp_factor == 1000 + (weather.temperature.n - 200)
        multipath   == 10000 + 8 * humidity
    IN  [humidity_factor   |-> humidity * 10,
         absorption_2_4ghz |-> Round(humidity * temp_factor * 5, 10000),
         absorption_5ghz   |-> Round(humidity * temp_factor * 12, 10000),
         multipath_factor  |-> Round(multipath, 10),
         range_factor      |-> Round(range_factor(humidity), 10),
         overall_impact    |-> Round(range_factor(humidity), 10)]

calculate_humidity_rf_impact(weather) ==
    LET humidity    == weather.humidity.n
        temp_factor == 1000 + (weather.temperature.n - 200)   \* thousandths
        multipath   == 10000 + 8 * humidity                   \* ten-thousandths
    IN  [humidity_factor   |-> humidity * 10,
         absorption_2_4ghz |-> Round(humidity * temp_factor * 5, 10000),
         absorption_5ghz   |-> Round(humidity * temp_factor * 12, 10000),
         multipath_factor  |-> Round(multipath, 10),
         range_factor      |-> Round(range_factor(humidity), 10),
         overall_impact    |-> Round(range_factor(humidity) * multipath, 100000)]

\* Denominator of ducting_conditions: 5000 * 4053, with pressure in quarters of
\* hPa (standard_pressure = 1013.25 = 4053 / 4)
DuctDen == 20265000

\* ducting_conditions * DuctDen (lines 179-192)
ducting_conditions(pressure, humidity, temperature) ==
    Abs(4 * pressure - 4053) * 2000
      + (500 - Abs(temperature - 180)) * 3 * 4053
      + Abs(humidity - 60) * 15 * 4053

\* max(0, min(ducting_conditions, 1.0)) * DuctDen
ducting_strength(conditions) == Max(0, Min(conditions, DuctDen))

\* Mutant: optimal_conditions tested against 0.5
calculate_atmospheric_ducting_low_threshold(weather) ==
    LET strength == ducting_strength(
                        ducting_conditions(weather.pressure.n,
                                           weather.humidity.n,
                                           weather.temperature.n))
    IN  [ducting_probability |-> Round(strength, DuctDen \div 1000),
         range_extension     |-> 1000 + Round(strength * 35, DuctDen \div 10),
         pressure_factor     |-> Round((4 * weather.pressure.n - 4053) * 1000,
                                       4053),
         optimal_conditions  |-> strength * 10 > DuctDen * 5]

calculate_atmospheric_ducting(weather) ==
    LET strength == ducting_strength(
                        ducting_conditions(weather.pressure.n,
                                           weather.humidity.n,
                                           weather.temperature.n))
    IN  [ducting_probability |-> Round(strength, DuctDen \div 1000),
         range_extension     |-> 1000 + Round(strength * 35, DuctDen \div 10),
         pressure_factor     |-> Round((4 * weather.pressure.n - 4053) * 1000,
                                       4053),
         optimal_conditions  |-> strength * 10 > DuctDen * 6]

\* Mutant: max(zone_factors.items()) without key=, which compares the key
\* strings: "zone_90" is the greatest
BestZoneByKey(zone_factors) == 90

\* Mutant: among equal factors the last sector wins
BestZoneLast(zone_factors) ==
    CHOOSE z \in ZoneAngles :
        /\ \A y \in ZoneAngles : zone_factors[y] <= zone_factors[z]
        /\ \A y \in ZoneAngles : y > z => zone_factors[y] < zone_factors[z]

\* max / min over zone_factors.items(): the first extremum in insertion order
BestZone(zone_factors) ==
    CHOOSE z \in ZoneAngles :
        /\ \A y \in ZoneAngles : zone_factors[y] <= zone_factors[z]
        /\ \A y \in ZoneAngles : y < z => zone_factors[y] < zone_factors[z]
WorstZone(zone_factors) ==
    CHOOSE z \in ZoneAngles :
        /\ \A y \in ZoneAngles : zone_factors[y] >= zone_factors[z]
        /\ \A y \in ZoneAngles : y < z => zone_factors[y] > zone_factors[z]

get_optimal_rf_directions(wind_impact, ducting_impact) ==
    LET zf == wind_impact.zone_factors
    IN  [best_direction    |-> BestZone(zf),
         best_enhancement  |-> zf[BestZone(zf)],
         worst_direction   |-> WorstZone(zf),
         worst_degradation |-> zf[WorstZone(zf)],
         ducting_active    |-> ducting_impact.optimal_conditions]

\* Mutant: the weights 0.3 and 0.4 of wind and humidity are exchanged
assess_weights_exchanged(weather) ==
    LET wind_impact     == calculate_wind_rf_impact(weather)
        humidity_impact == calculate_humidity_rf_impact(weather)
        ducting_impact  == calculate_atmospheric_ducting(weather)
        overall_factor  == Round(wind_impact.overall_impact * 4
                                   + humidity_impact.overall_impact * 3
                                   + ducting_impact.range_extension * 3, 10)
    IN  [timestamp           |-> weather.timestamp,
         location            |-> weather.location,
         weather_conditions  |-> weather,
         wind_rf_impact      |-> wind_impact,
         humidity_rf_impact  |-> humidity_impact,
         atmospheric_ducting |-> ducting_impact,
         overall_rf_factor   |-> overall_factor,
         range_modifier      |-> overall_factor,
         optimal_directions  |->
             get_optimal_rf_directions(wind_impact, ducting_impact)]

\* lines 208-231 once fetch_weather_data has returned `weather`
assess(weather) ==
    LET wind_impact     == calculate_wind_rf_impact(weather)
        humidity_impact == calculate_humidity_rf_impact(weather)
        ducting_impact  == calculate_atmospheric_ducting(weather)
        overall_factor  == Round(wind_impact.overall_impact * 3
                                   + humidity_impact.overall_impact * 4
                                   + ducting_impact.range_extension * 3, 10)
    IN  [timestamp           |-> weather.timestamp,
         location            |-> weather.location,
         weather_conditions  |-> weather,
         wind_rf_impact      |-> wind_impact,
         humidity_rf_impact  |-> humidity_impact,
         atmospheric_ducting |-> ducting_impact,
         overall_rf_factor   |-> overall_factor,
         range_modifier      |-> overall_factor,
         optimal_directions  |->
             get_optimal_rf_directions(wind_impact, ducting_impact)]

\* An estimator raises TypeError on the snapshot
AssessRaises(weather) ==
    WindRaises(weather) \/ HumidityRaises(weather) \/ DuctingRaises(weather)

-----------------------------------------------------------------------------
(* Callers.  Spec: one thread calling the two public entry points.            *)

NoResponse == [name |-> "none", status |-> 0, body |-> NoBody("none")]
NoDraw     == <<0, 0, 0, 0, 0, 0, 0>>

Threads == 1..NThreads

\* What is kept of a call once a later call has completed
Summary(c) ==
    IF c = <<>> THEN <<>>
    ELSE <<[t |-> c[1].t, requested |-> c[1].requested, source |-> c[1].source,
            timestamp |-> c[1].ret.timestamp]>>

LastTwo(q, t) == IF Len(q) < 2 THEN Append(q, t) ELSE <<q[2], t>>

\* No amplifier call has been made
AmpIdle ==
    /\ detected_devices = <<>>
    /\ base_intensity = 0
    /\ amp_data = <<>>
    /\ amp_summary = <<>>

\* The monitor threads start_monitoring may create, in creation order
LoopIds == 1..MaxLoops

\* SDRHardwareMonitor.__init__ (lines 20-28), with no callback, before any
\* call
SdrIdle ==
    /\ is_monitoring = FALSE
    /\ hackrf_detected = FALSE
    /\ consecutive_failures = 0
    /\ monitor_thread = 0
    /\ callback_on_disconnect = "none"
    /\ attached = TRUE
    /\ loop_pc = [t \in LoopIds |-> "unborn"]
    /\ cb_calls = [t \in LoopIds |-> 0]
    /\ cb_ended = [t \in LoopIds |-> "no"]
    /\ checked_after_cb = [t \in LoopIds |-> FALSE]
    /\ streak = 0
    /\ stopped = [t \in LoopIds |-> "no"]
    /\ shutdown = "no"
    /\ chaos_running = FALSE
    /\ sdr_last = <<>>

\* AirTagTracker.__init__ (lines 22-23), before any call
TagIdle ==
    /\ detected_trackers = <<>>
    /\ blocked_trackers = {}
    /\ tag_last = <<>>

OtherIdle == AmpIdle /\ SdrIdle /\ TagIdle

IdleThreads ==
    /\ pc = [t \in Threads |-> "idle"]
    /\ tcur = [t \in Threads |-> 0]
    /\ tret = [t \in Threads |-> <<>>]
    /\ nreq = 0

NoEstimate ==
    /\ snap = <<>>
    /\ est = <<>>

\* __init__ (lines 22-26)
Init ==
    /\ now = Epoch
    /\ last_weather_update = 0
    /\ weather_cache = <<>>
    /\ call = <<>>
    /\ prev = <<>>
    /\ reqs = <<>>
    /\ IdleThreads
    /\ NoEstimate
    /\ OtherIdle

\* The clock moves between calls
Tick ==
    \E d \in {CacheTTL - 1, CacheTTL} :
        /\ now + d <= Epoch + MaxSpan
        /\ now' = now + d
        /\ UNCHANGED <<last_weather_update, weather_cache, call, prev, reqs,
                       pc, tcur, tret, nreq, snap, est,
                       otherVars>>

\* One call, by `op`, of fetch_weather_data, and for op = "assess" the rest of
\* get_comprehensive_rf_environment.
Call(op, resp, draw) ==
    LET r == fetch_weather_data(now, last_weather_update, weather_cache,
                                resp, draw)
        raised == op = "assess" /\ AssessRaises(r.ret)
    IN  /\ weather_cache' = r.cache
        /\ last_weather_update' = r.last
        /\ reqs' = IF r.requested THEN LastTwo(reqs, now) ELSE reqs
        /\ prev' = Summary(call)
        /\ call' =
            <<[op |-> op, t |-> now,
               pre_last |-> last_weather_update, pre_cache |-> weather_cache,
               requested |-> r.requested, attempts |-> r.attempts,
               resp |-> resp, source |-> r.source,
               ret |-> r.ret, raised |-> raised,
               result |-> IF op = "assess" /\ ~raised
                          THEN <<assess(r.ret)>> ELSE <<>>]>>
        /\ UNCHANGED <<now, pc, tcur, tret, nreq, snap, est,
                       otherVars>>

\* The response and the random draw matter only when the call reaches them
Answers ==
    IF CacheFresh(now, last_weather_update, weather_cache)
    THEN {NoResponse} ELSE Responses
Draws(resp) ==
    IF CacheFresh(now, last_weather_update, weather_cache) \/ StoresLive(resp)
    THEN {NoDraw} ELSE SimDraws

FetchWeatherData ==
    \E resp \in Answers : \E draw \in Draws(resp) : Call("fetch", resp, draw)

GetComprehensiveRFEnvironment ==
    \E resp \in Answers : \E draw \in Draws(resp) : Call("assess", resp, draw)

Next == Tick \/ FetchWeatherData \/ GetComprehensiveRFEnvironment

Spec == Init /\ [][Next]_vars

-----------------------------------------------------------------------------
(* Claims about the cache and the fallback, under Spec *)

\* C1: two calls made less than 600 seconds apart, the earlier of which
\* attempted a fetch, return the same snapshot (equal timestamp), whatever the
\* outcome of that fetch.
C1_SameSnapshotWithinTTL ==
    (/\ call # <<>> /\ prev # <<>>
     /\ prev[1].requested
     /\ call[1].t - prev[1].t < CacheTTL)
    => call[1].ret.timestamp = prev[1].timestamp

\* C2: at most one HTTP request in any 600-second window: two consecutive
\* requests are at least 600 seconds apart, failed requests included.
C2_OneRequestPerWindow ==
    Len(reqs) = 2 => reqs[2] - reqs[1] >= CacheTTL

\* C3: a call issues an HTTP request exactly when the cache is empty or 600
\* seconds or more have passed since last_weather_update; otherwise it issues
\* none and returns the stored snapshot.
C3_FetchIffStale ==
    call # <<>> =>
        LET c == call[1]
            stale == c.pre_cache = <<>> \/ c.t - c.pre_last >= CacheTTL
        IN  /\ c.requested <=> stale
            /\ ~stale => c.ret = c.pre_cache[1] /\ c.source = "cache"

\* C3 witness: a call exactly 600 seconds after the stored snapshot's fetch
\* issued a request.
C3_Witness ==
    /\ call # <<>>
    /\ call[1].pre_cache # <<>>
    /\ call[1].t - call[1].pre_last = CacheTTL
    /\ call[1].requested

\* C4: when the request raises, returns a status other than 200, or returns a
\* body that cannot be decoded or parsed, fetch_weather_data returns a snapshot
\* with simulated = True and does not raise.
C4_FailureGivesSimulated ==
    (/\ call # <<>>
     /\ call[1].requested
     /\ call[1].resp.status # 200 \/ ParseRaises(call[1].resp.body))
    => /\ call[1].ret.simulated
       /\ call[1].source = "simulated"
       /\ call[1].op = "fetch" => ~call[1].raised

\* C4 witness: a status-200 body whose visibility is null made the parser raise.
C4_Witness ==
    /\ call # <<>>
    /\ call[1].op = "fetch"
    /\ call[1].requested
    /\ call[1].resp.name = "nullvis"

\* C5 as stated: a status-200 object with an expected field absent triggers the
\* simulated fallback and is not stored in the cache.
C5_MissingFieldFallsBack ==
    (/\ call # <<>>
     /\ call[1].requested
     /\ call[1].resp.status = 200
     /\ FieldMissing(call[1].resp.body))
    => /\ call[1].ret.simulated
       /\ weather_cache = call[1].pre_cache

\* C5 amended: a status-200 object with an expected field absent, and whose
\* present parts parse, is stored in the cache as a live snapshot (no simulated
\* flag) with the defaults 0, 0, 50, 20 C, 1013 hPa, 10 km in place of the
\* absent fields.
C5_MissingFieldGetsDefault ==
    (/\ call # <<>>
     /\ call[1].requested
     /\ call[1].resp.status = 200
     /\ FieldMissing(call[1].resp.body)
     /\ ~ParseRaises(call[1].resp.body))
    => LET c == call[1]
           b == c.resp.body
           absent(obj, f) == obj.k = "missing" \/ obj[f].k = "missing"
       IN  /\ ~c.ret.simulated
           /\ c.source = "live"
           /\ weather_cache = <<c.ret>>
           /\ last_weather_update = c.t
           /\ absent(b.wind, "speed") => c.ret.wind_speed = Num(0)
           /\ absent(b.wind, "deg") => c.ret.wind_direction = Num(0)
           /\ absent(b.main, "humidity") => c.ret.humidity = Num(50)
           /\ absent(b.main, "temp") => c.ret.temperature = Num(200)
           /\ absent(b.main, "pressure") => c.ret.pressure = Num(1013)
           /\ b.visibility.k = "missing" => c.ret.visibility = Num(100)

\* C5 witness: a response without wind.speed was fetched.
C5_Witness ==
    /\ call # <<>>
    /\ call[1].requested
    /\ call[1].resp.name = "nospeed"

\* C6: get_comprehensive_rf_environment never raises, whatever the provider
\* answered and whatever snapshot is cached.
C6_AssessNeverRaises ==
    call # <<>> => ~call[1].raised

\* C7: the assessment's weather_conditions carries simulated = True exactly
\* when the snapshot came from the fallback generator in that call; a live
\* snapshot, fresh or cached, never carries it.
C7_FlagPreserved ==
    (call # <<>> /\ call[1].op = "assess" /\ ~call[1].raised)
    => LET flag == call[1].result[1].weather_conditions.simulated
       IN  /\ flag <=> call[1].source = "simulated"
           /\ call[1].source \in {"live", "cache"} => ~flag

\* C7 witness: an assessment built on a fallback snapshot, right after a call
\* that was served a live one.
C7_Witness ==
    /\ call # <<>> /\ prev # <<>>
    /\ call[1].op = "assess"
    /\ ~call[1].raised
    /\ call[1].source = "simulated"
    /\ call[1].result[1].weather_conditions.simulated
    /\ prev[1].source \in {"live", "cache"}

\* C11: every snapshot fetch_weather_data returns, parsed or simulated, has
\* humidity in [0, 100], wind_direction in [0, 360), wind_speed >= 0 and
\* visibility >= 0.
C11_SnapshotFieldsInRange ==
    call # <<>> =>
        LET w == call[1].ret
        IN  /\ IsNum(w.humidity) /\ w.humidity.n \in 0..100
            /\ IsNum(w.wind_direction) /\ w.wind_direction.n \in 0..359
            /\ IsNum(w.wind_speed) /\ w.wind_speed.n >= 0
            /\ IsNum(w.visibility) /\ w.visibility.n >= 0

\* C18: a call of fetch_weather_data sends at most one HTTP request (none on a
\* cache hit, one otherwise, no second one after a failure) and returns a
\* snapshot: the cached one, the freshly parsed one, or a simulated one.
C18_OneRequestThenReturn ==
    call # <<>> =>
        LET c == call[1]
        IN  /\ c.attempts <= 1
            /\ c.requested <=> c.attempts = 1
            /\ \/ /\ c.source = "cache"
                  /\ c.attempts = 0
                  /\ c.ret = c.pre_cache[1]
               \/ /\ c.source = "live"
                  /\ c.resp.status = 200
                  /\ ~c.ret.simulated
                  /\ weather_cache = <<c.ret>>
               \/ /\ c.source = "simulated"
                  /\ c.ret.simulated
                  /\ c.ret.timestamp = strftime(c.t)

\* C18 witness: a call right after a failed one failed again and returned a
\* simulated snapshot.
C18_Witness ==
    /\ call # <<>> /\ prev # <<>>
    /\ prev[1].source = "simulated"
    /\ call[1].resp.name = "timeout"
    /\ call[1].attempts = 1
    /\ call[1].source = "simulated"

\* C19: the cache changes only by replacement on a successful fetch:
\* weather_cache and last_weather_update are set together when a status-200
\* answer was parsed, a failed fetch (also one made after expiry) leaves both
\* as they were, a simulated snapshot is never stored, and the aggregator
\* changes the two fields only through its call of fetch_weather_data.
C19_CacheReplacedOnSuccessOnly ==
    /\ weather_cache # <<>> => ~weather_cache[1].simulated
    /\ call # <<>> =>
          LET c == call[1]
          IN  IF c.source = "live"
              THEN /\ c.resp.status = 200
                   /\ weather_cache = <<c.ret>>
                   /\ last_weather_update = c.t
              ELSE /\ weather_cache = c.pre_cache
                   /\ last_weather_update = c.pre_last

\* C19 witness: the aggregator ran after the cached snapshot had expired, the
\* request failed, and the expired snapshot is still the cached one.
C19_Witness ==
    /\ call # <<>>
    /\ call[1].op = "assess"
    /\ call[1].source = "simulated"
    /\ call[1].pre_cache # <<>>
    /\ call[1].t - call[1].pre_last >= CacheTTL
    /\ weather_cache = call[1].pre_cache
    /\ last_weather_update = call[1].pre_last

-----------------------------------------------------------------------------
(* SpecThreads: NThreads threads inside fetch_weather_data at once.  The      *)
(* method takes no lock; its shared accesses are the read of the cache and    *)
(* its age (line 41), the store of weather_cache (line 58) and the store of   *)
(* last_weather_update (line 59).                                             *)

\* A snapshot stored by an earlier, successful fetch at time t
Stored(t) == parse_weather_data(Body(FullWind, FullMain, Num(10000)), t)

\* The threads start on an empty cache or on an expired one
InitThreads ==
    /\ now = Epoch
    /\ \/ last_weather_update = 0 /\ weather_cache = <<>>
       \/ /\ last_weather_update = Epoch - CacheTTL
          /\ weather_cache = <<Stored(Epoch - CacheTTL)>>
    /\ call = <<>>
    /\ prev = <<>>
    /\ reqs = <<>>
    /\ IdleThreads
    /\ NoEstimate
    /\ OtherIdle

TickThreads ==
    /\ now < Epoch + BurstSpan
    /\ now' = now + 1
    /\ UNCHANGED <<last_weather_update, weather_cache, call, prev, reqs,
                   pc, tcur, tret, nreq, snap, est,
                   otherVars>>

\* lines 38-54: read the clock, test the cache, and either return the cached
\* snapshot or send the request
CheckCache(t) ==
    /\ pc[t] = "idle"
    /\ tcur' = [tcur EXCEPT ![t] = now]
    /\ IF CacheFresh(now, last_weather_update, weather_cache)
       THEN /\ tret' = [tret EXCEPT ![t] = <<weather_cache[1]>>]
            /\ pc' = [pc EXCEPT ![t] = "done"]
            /\ nreq' = nreq
       ELSE /\ tret' = tret
            /\ pc' = [pc EXCEPT ![t] = "request"]
            /\ nreq' = nreq + 1
    /\ UNCHANGED <<now, last_weather_update, weather_cache, call, prev, reqs,
                   snap, est,
                   otherVars>>

\* lines 56-58 and 61-67: the answer arrives; a live one is parsed and stored
Respond(t) ==
    /\ pc[t] = "request"
    /\ \E resp \in Responses :
        IF StoresLive(resp)
        THEN /\ weather_cache' = <<parse_weather_data(resp.body, now)>>
             /\ pc' = [pc EXCEPT ![t] = "stamp"]
             /\ tret' = tret
        ELSE /\ \E draw \in SimDraws :
                   tret' = [tret EXCEPT
                              ![t] = <<generate_simulated_weather(draw, now)>>]
             /\ pc' = [pc EXCEPT ![t] = "done"]
             /\ weather_cache' = weather_cache
    /\ UNCHANGED <<now, last_weather_update, call, prev, reqs, tcur, nreq,
                   snap, est,
                   otherVars>>

\* lines 59-60: the time of the fetch is stored and the cache returned
Stamp(t) ==
    /\ pc[t] = "stamp"
    /\ last_weather_update' = tcur[t]
    /\ tret' = [tret EXCEPT ![t] = <<weather_cache[1]>>]
    /\ pc' = [pc EXCEPT ![t] = "done"]
    /\ UNCHANGED <<now, weather_cache, call, prev, reqs, tcur, nreq, snap, est,
                   otherVars>>

NextThreads ==
    \/ TickThreads
    \/ \E t \in Threads : CheckCache(t)
    \/ \E t \in Threads : Respond(t)
    \/ \E t \in Threads : Stamp(t)

SpecThreads == InitThreads /\ [][NextThreads]_vars

\* C8: concurrent callers on an empty or expired cache are mutually exclusive
\* in the cache check and update: at most one HTTP request is issued, and when
\* it stored a snapshot every caller returns that snapshot.
C8_OneRequestAmongThreads ==
    /\ nreq <= 1
    /\ (\A t \in Threads : pc[t] = "done") =>
           \A a, b \in Threads : tret[a] = tret[b]

-----------------------------------------------------------------------------
(* SpecEstimators: the estimators and the aggregator applied to sampled       *)
(* snapshots, inside and outside the nominal domain: parse_weather_data       *)
(* passes the provider's numbers on unvalidated, and the estimators are       *)
(* public methods that take any dict.                                         *)

WindSpeeds   == {-50, 0, 10, 15, 50, 65, 100, 150}             \* tenths of m/s
WindDirs     == {0, 25, 45, 90, 135, 180, 220, 270, 300, 315}
Humidities   == {5 * i : i \in -2..MaxStep}
Temperatures == {-400, 180, 200, 280, 600}                 \* tenths of deg C
Pressures    == {900, 950, 1013, 1050, 2000}

\* Every combination of the least and the greatest value of each random draw
\* of generate_simulated_weather
SimCorners ==
    {240, 280} \X {-20, 20} \X {15, 65} \X {55, 85} \X {180, 280}
        \X {1012, 1018} \X {100, 200}

Snapshot(ws, wd, h, t, p) ==
    [wind_speed     |-> Num(ws),
     wind_direction |-> Num(wd),
     humidity       |-> Num(h),
     temperature    |-> Num(t),
     pressure       |-> Num(p),
     visibility     |-> Num(100),
     timestamp      |-> strftime(Epoch),
     location       |-> LocationName,
     simulated      |-> FALSE]

InitEstimators ==
    /\ now = Epoch
    /\ last_weather_update = 0
    /\ weather_cache = <<>>
    /\ call = <<>>
    /\ prev = <<>>
    /\ reqs = <<>>
    /\ IdleThreads
    /\ \/ \E ws \in WindSpeeds, wd \in WindDirs, h \in Humidities,
             t \in Temperatures, p \in Pressures :
              snap = <<Snapshot(ws, wd, h, t, p)>>
       \/ \E d \in SimCorners :
              snap = <<generate_simulated_weather(d, Epoch)>>
    /\ est = <<>>
    /\ OtherIdle

\* lines 210-231 on the snapshot under test
Estimate ==
    /\ est = <<>>
    /\ est' = <<assess(snap[1])>>
    /\ UNCHANGED <<now, last_weather_update, weather_cache, call, prev, reqs,
                   pc, tcur, tret, nreq, snap,
                   otherVars>>

NextEstimators == Estimate

SpecEstimators == InitEstimators /\ [][NextEstimators]_vars

\* A snapshot inside the documented domain
ValidSnapshot(w) ==
    /\ w.humidity.n \in 0..100
    /\ w.wind_speed.n >= 0

\* C9: for every valid snapshot, wind overall_impact is in [1.0, 1.10],
\* turbulence_factor in [0, 1], humidity range_factor in [0.94, 1.0], ducting
\* range_extension in [1.0, 1.35] and ducting_probability in [0, 1].
C9_BoundsOnValidSnapshots ==
    (est # <<>> /\ ValidSnapshot(snap[1])) =>
        /\ est[1].wind_rf_impact.overall_impact \in 1000..1100
        /\ est[1].wind_rf_impact.turbulence_factor \in 0..1000
        /\ est[1].humidity_rf_impact.range_factor \in 940..1000
        /\ est[1].atmospheric_ducting.range_extension \in 1000..1350
        /\ est[1].atmospheric_ducting.ducting_probability \in 0..1000

\* C9 witness: a valid snapshot at the edges of the bounds (wind above 10 m/s,
\* humidity 100 %) has been estimated.
C9_Witness ==
    /\ est # <<>>
    /\ ValidSnapshot(snap[1])
    /\ snap[1].wind_speed.n > 100
    /\ snap[1].humidity.n = 100
    /\ est[1].wind_rf_impact.overall_impact = 1100
    /\ est[1].humidity_rf_impact.range_factor = 940

\* C10: the estimators clamp: for any snapshot, also outside the nominal
\* domain, every zone factor is in [0.85, 1.15], wind overall_impact in
\* [1.0, 1.10], humidity range_factor in [0.94, 1.0] and ducting
\* range_extension in [1.0, 1.35].
C10_ClampedOnAnySnapshot ==
    est # <<>> =>
        /\ \A z \in ZoneAngles :
               est[1].wind_rf_impact.zone_factors[z] \in 850..1150
        /\ est[1].wind_rf_impact.overall_impact \in 1000..1100
        /\ est[1].humidity_rf_impact.range_factor \in 940..1000
        /\ est[1].atmospheric_ducting.range_extension \in 1000..1350

\* Largest and smallest value of a zone_factors map
MaxFactor(zf) == CHOOSE v \in {zf[z] : z \in DOMAIN zf} :
                     \A z \in DOMAIN zf : zf[z] <= v
MinFactor(zf) == CHOOSE v \in {zf[z] : z \in DOMAIN zf} :
                     \A z \in DOMAIN zf : zf[z] >= v

\* C13: get_optimal_rf_directions returns best_enhancement = the maximum and
\* worst_degradation = the minimum of zone_factors, best_direction and
\* worst_direction are sector angles whose factors attain them, and
\* best_enhancement >= worst_degradation.
C13_ExtremaOfZoneFactors ==
    est # <<>> =>
        LET zf == est[1].wind_rf_impact.zone_factors
            od == est[1].optimal_directions
        IN  /\ od.best_enhancement = MaxFactor(zf)
            /\ od.worst_degradation = MinFactor(zf)
            /\ od.best_direction \in {0, 45, 90, 135, 180, 225, 270, 315}
            /\ od.worst_direction \in {0, 45, 90, 135, 180, 225, 270, 315}
            /\ zf[od.best_direction] = MaxFactor(zf)
            /\ zf[od.worst_direction] = MinFactor(zf)
            /\ od.best_enhancement >= od.worst_degradation

\* C13 witness: a map with distinct extrema whose maximum is not at the first
\* sector has been searched.
C13_Witness ==
    /\ est # <<>>
    /\ est[1].optimal_directions.best_direction = 225
    /\ est[1].optimal_directions.worst_direction = 45
    /\ est[1].optimal_directions.best_enhancement
           > est[1].optimal_directions.worst_degradation

\* C14: overall_rf_factor is wind overall_impact x 0.3 + humidity
\* overall_impact x 0.4 + ducting range_extension x 0.3 of the returned
\* estimator results, rounded to 3 decimals (within half a thousandth of the
\* weighted sum), and optimal_directions.ducting_active equals
\* atmospheric_ducting.optimal_conditions.
C14_WeightedSumAndDuctingFlag ==
    est # <<>> =>
        LET weighted == 3 * est[1].wind_rf_impact.overall_impact
                          + 4 * est[1].humidity_rf_impact.overall_impact
                          + 3 * est[1].atmospheric_ducting.range_extension
        IN  /\ Abs(10 * est[1].overall_rf_factor - weighted) <= 5
            /\ est[1].optimal_directions.ducting_active
                   = est[1].atmospheric_ducting.optimal_conditions

\* C14 witness: an assessment with ducting active and unequal wind and
\* humidity impacts.
C14_Witness ==
    /\ est # <<>>
    /\ est[1].optimal_directions.ducting_active
    /\ est[1].wind_rf_impact.overall_impact
           > est[1].humidity_rf_impact.overall_impact + 50

\* The snapshot of the example scenario (its pressure, 1013.25, enters none of
\* the outputs named, and is sampled as 1013)
ExampleSnapshot(w) ==
    /\ w.wind_speed.n = 50
    /\ w.wind_direction.n = 270
    /\ w.humidity.n = 70
    /\ w.temperature.n = 200
    /\ w.pressure.n = 1013

\* C15: for wind_speed 5, wind_direction 270, humidity 70, temperature 20 the
\* estimators return turbulence_factor 0.5, zone_270 1.075, zone_90 0.96,
\* humidity_factor 0.7, absorption_2_4ghz 0.035 and range_factor 0.958; and in
\* general a zone factor is 1 + alignment x turbulence x 0.15 when alignment > 0
\* and 1 + alignment x turbulence x 0.08 otherwise (to the nearest thousandth),
\* with turbulence = min(wind_speed / 10, 1).
C15_ExampleAndZoneFormula ==
    est # <<>> =>
        LET w  == snap[1]
            wi == est[1].wind_rf_impact
            hi == est[1].humidity_rf_impact
            t  == IF w.wind_speed.n < 100 THEN w.wind_speed.n ELSE 100
        IN  /\ ExampleSnapshot(w) =>
                   /\ wi.turbulence_factor = 500
                   /\ wi.zone_factors[270] = 1075
                   /\ wi.zone_factors[90] = 960
                   /\ hi.humidity_factor = 700
                   /\ hi.absorption_2_4ghz = 35
                   /\ hi.range_factor = 958
            /\ wi.turbulence_factor = 10 * t
            /\ \A z \in ZoneAngles :
                   LET a == Cos(w.wind_direction.n - z)
                       c == IF a > 0 THEN 15 ELSE 8
                   IN  Abs(100000 * (wi.zone_factors[z] - 1000) - a * t * c)
                           <= 50000

\* C15 witness: the example snapshot has been estimated.
C15_Witness ==
    /\ est # <<>>
    /\ ExampleSnapshot(snap[1])
    /\ est[1].wind_rf_impact.zone_factors[270] = 1075

\* ducting_probability of snapshot w with one field replaced
ScoreWith(w, field, value) ==
    calculate_atmospheric_ducting([w EXCEPT ![field] = Num(value)])
        .ducting_probability

\* C16: with the other fields fixed, ducting_probability is greatest at
\* temperature 18 C over all temperatures, and greatest at humidity 60 % over
\* all humidities in [0, 100] (stated for snapshots inside the documented
\* domain).
C16_DuctingPeaks ==
    (est # <<>> /\ ValidSnapshot(snap[1])) =>
        LET score == est[1].atmospheric_ducting.ducting_probability
        IN  /\ ScoreWith(snap[1], "temperature", 180) >= score
            /\ snap[1].humidity.n \in 0..100 =>
                   ScoreWith(snap[1], "humidity", 60) >= score

\* C17: for every snapshot with wind speed >= 0, zone_factors has exactly the 8
\* keys zone_0 .. zone_315; a sector with positive alignment has factor in
\* [1.0, 1.15], any other sector has factor in [0.92, 1.0], and the largest
\* boost (factor - 1) is never smaller than the largest penalty (1 - factor).
C17_AsymmetricBoundedZones ==
    (est # <<>> /\ snap[1].wind_speed.n >= 0) =>
        LET zf == est[1].wind_rf_impact.zone_factors
            wd == snap[1].wind_direction.n
        IN  /\ DOMAIN zf = {0, 45, 90, 135, 180, 225, 270, 315}
            /\ Cardinality(DOMAIN zf) = 8
            /\ \A z \in DOMAIN zf :
                   IF Cos(wd - z) > 0 THEN zf[z] \in 1000..1150
                   ELSE zf[z] \in 920..1000
            /\ MaxFactor(zf) - 1000 >= 1000 - MinFactor(zf)

\* C17 witness: a strong wind blowing between two sectors has given boosted
\* and penalised sectors.
C17_Witness ==
    /\ est # <<>>
    /\ snap[1].wind_speed.n >= 100
    /\ snap[1].wind_direction.n = 25
    /\ MaxFactor(est[1].wind_rf_impact.zone_factors) > 1100
    /\ MinFactor(est[1].wind_rf_impact.zone_factors) < 930

\* C20: for every snapshot with humidity in [0,100] and pressure in
\* [950,1050] hPa, at any temperature, the ducting strength is at most 0.6, so
\* optimal_conditions and ducting_active are false; ducting_active is false
\* for every snapshot of generate_simulated_weather.
C20_NoDuctingInNominalRange ==
    est # <<>> =>
        LET w        == snap[1]
            strength == ducting_strength(
                            ducting_conditions(w.pressure.n, w.humidity.n,
                                               w.temperature.n))
            nominal  == /\ w.humidity.n \in 0..100
                        /\ w.pressure.n \in 950..1050
        IN  /\ nominal =>
                  /\ strength * 10 <= DuctDen * 6
                  /\ est[1].atmospheric_ducting.ducting_probability <= 600
                  /\ ~est[1].atmospheric_ducting.optimal_conditions
                  /\ ~est[1].optimal_directions.ducting_active
            /\ w.simulated => ~est[1].optimal_directions.ducting_active

\* C20 witness: the nominal snapshot with the strongest ducting (dry air, low
\* pressure, 18 deg C) was assessed: its strength exceeds 0.5 and ducting is
\* not active.
C20_Witness ==
    /\ est # <<>>
    /\ snap[1].humidity.n = 0
    /\ snap[1].pressure.n = 950
    /\ snap[1].temperature.n = 180
    /\ est[1].atmospheric_ducting.ducting_probability > 500
    /\ ~est[1].optimal_directions.ducting_active

\* C21: for every valid snapshot (humidity in [0,100], wind speed >= 0) the
\* aggregator returns overall_rf_factor in [1.0, 1.142], so the combined
\* factor never falls below 1.0 however high the humidity, and range_modifier
\* equals overall_rf_factor.
C21_OverallFactorRange ==
    (est # <<>> /\ ValidSnapshot(snap[1])) =>
        /\ est[1].overall_rf_factor \in 1000..1142
        /\ est[1].range_modifier = est[1].overall_rf_factor
        /\ est[1].humidity_rf_impact.overall_impact >= 1000

\* C21 witness: saturated air without wind, where the range factor is lowest
\* (0.94) and the multipath gain alone keeps the combined factor above 1.0.
C21_Witness ==
    /\ est # <<>>
    /\ snap[1].humidity.n = 100
    /\ snap[1].wind_speed.n = 0
    /\ est[1].humidity_rf_impact.range_factor = 940
    /\ est[1].overall_rf_factor >= 1000
    /\ est[1].range_modifier = est[1].overall_rf_factor

-----------------------------------------------------------------------------
(* SpecAmplifier: SimpleRFAmplifier of src/rf_amplification_module.py, called
   once on a device list and a base intensity, then summarised.  A device is
   a dict whose 'signal' key may be absent; intensities and ranges are whole
   numbers, amplification_factor is in hundredths, coverage_area in tenths of
   a square metre. *)

MaxDevices == 5     \* longest device list passed in

Signals == {Num(-61), Num(-60), Num(-59), Missing}
Device(signal) == [signal |-> signal]
Intensities == {0, 1, 33, 50, 77, 100}

DeviceLists(n) ==
    UNION {[1..k -> {Device(s) : s \in Signals}] : k \in 0..n}

\* line 30: the devices whose signal can act as a carrier
strong_signals(devices) ==
    {i \in 1..Len(devices) : Get(devices[i].signal, -100).n > -60}

\* round(math.pi * extended_range ** 2, 1) for the ranges 25 + 12 * c capped
\* at 100
coverage_area(extended_range) ==
    CASE extended_range = 25  -> 19635
      [] extended_range = 37  -> 43008
      [] extended_range = 49  -> 75430
      [] extended_range = 61  -> 116899
      [] extended_range = 73  -> 167415
      [] extended_range = 85  -> 226980
      [] extended_range = 97  -> 295592
      [] extended_range = 100 -> 314159

\* lines 24-57; int(base * (1.0 + 0.3 c)) is the floor of base (10 + 3 c) / 10
\* wherever it is below the cap of 100
calculate_amplification(devices, base) ==
    LET carrier_count == Cardinality(strong_signals(devices))
        extended_range == Min(100, 25 + carrier_count * 12)
    IN  IF devices = <<>>
        THEN [amplified_intensity |-> base, extended_range |-> 25,
              mode |-> "none"]
        ELSE [amplified_intensity |->
                  Min(100, (base * (10 + 3 * carrier_count)) \div 10),
              extended_range |-> extended_range,
              amplification_factor |-> 100 + 30 * carrier_count,
              carrier_count |-> carrier_count,
              mode |-> IF carrier_count >= 4 THEN "constructive_interference"
                       ELSE IF carrier_count >= 2 THEN "harmonic_reflection"
                       ELSE "carrier_modulation",
              coverage_area |-> coverage_area(extended_range)]

\* lines 59-70: the fixed text for mode 'none', else the values formatted
\* into the summary line (coverage in tenths of an acre)
get_amplification_summary(amp) ==
    IF amp.mode = "none"
    THEN [text |-> "No amplification (no carriers detected)"]
    ELSE [text |-> "summary",
          mode |-> amp.mode,
          extended_range |-> amp.extended_range,
          range_increase |-> amp.extended_range - 25,
          carrier_count |-> amp.carrier_count,
          coverage_acres |-> Round(amp.coverage_area, 4047)]

EnvIdle ==
    /\ now = Epoch
    /\ last_weather_update = 0
    /\ weather_cache = <<>>
    /\ call = <<>>
    /\ prev = <<>>
    /\ reqs = <<>>
    /\ IdleThreads
    /\ NoEstimate

InitAmplifier ==
    /\ EnvIdle
    /\ SdrIdle
    /\ TagIdle
    /\ detected_devices \in DeviceLists(MaxDevices)
    /\ base_intensity \in Intensities
    /\ amp_data = <<>>
    /\ amp_summary = <<>>

CalculateAmplification ==
    /\ amp_data = <<>>
    /\ amp_data' = <<calculate_amplification(detected_devices, base_intensity)>>
    /\ UNCHANGED <<envVars, sdrVars, tagVars, detected_devices,
                   base_intensity, amp_summary>>

GetAmplificationSummary ==
    /\ amp_data # <<>>
    /\ amp_summary = <<>>
    /\ amp_summary' = <<get_amplification_summary(amp_data[1])>>
    /\ UNCHANGED <<envVars, sdrVars, tagVars, detected_devices,
                   base_intensity, amp_data>>

NextAmplifier == CalculateAmplification \/ GetAmplificationSummary

SpecAmplifier == InitAmplifier /\ [][NextAmplifier]_vars

\* C23: with base_intensity in [0,100], for every device list
\* amplified_intensity is in [base_intensity, 100] and extended_range in
\* [25, 100], neither decreases when a device is added, and the mode is 'none'
\* exactly when no device has signal > -60, else carrier_modulation for 1
\* carrier, harmonic_reflection for 2-3, constructive_interference for 4 or
\* more.
C23_AmplificationBoundsAndMode ==
    amp_data # <<>> =>
        LET a == amp_data[1]
            carriers == Cardinality(strong_signals(detected_devices))
        IN  /\ a.amplified_intensity \in base_intensity..100
            /\ a.extended_range \in 25..100
            /\ \A s \in Signals :
                  LET more == calculate_amplification(
                                  Append(detected_devices, Device(s)),
                                  base_intensity)
                  IN  /\ more.amplified_intensity >= a.amplified_intensity
                      /\ more.extended_range >= a.extended_range
            /\ a.mode = "none" <=> carriers = 0
            /\ carriers = 1 => a.mode = "carrier_modulation"
            /\ carriers \in 2..3 => a.mode = "harmonic_reflection"
            /\ carriers >= 4 => a.mode = "constructive_interference"

-----------------------------------------------------------------------------
(* SpecMonitor: SDRHardwareMonitor of src/sdr_hardware_monitor.py.  The GUI
   thread calls start_monitoring, stop_monitoring, initial_hardware_check and
   get_status in any order; every thread start_monitoring creates runs
   _monitor_loop; the HackRF is unplugged and plugged in at any time.  The
   callback is none, one that returns, one that raises, or
   EMFChaos4TabGUI.emergency_shutdown (src/emf_chaos_engine.py). *)

max_failures == 3

Callbacks == {"none", "returns", "raises", "emergency_shutdown"}

\* lines 32-73: hackrf_info answers with the device and its serial number, or
\* it does not (non-zero exit, no device line, timeout, tool not installed)
detect_hackrf(answers, failures) ==
    IF answers
    THEN [ok |-> TRUE, hackrf_detected |-> TRUE, consecutive_failures |-> 0]
    ELSE [ok |-> FALSE, hackrf_detected |-> FALSE,
          consecutive_failures |-> failures]

\* lines 170-177 (the serial number is left out)
get_status ==
    [hackrf_detected |-> hackrf_detected,
     is_monitoring |-> is_monitoring,
     consecutive_failures |-> consecutive_failures]

Saturate(n) == Min(n + 1, 2)

InitMonitor ==
    /\ EnvIdle
    /\ AmpIdle
    /\ TagIdle
    /\ is_monitoring = FALSE
    /\ hackrf_detected = FALSE
    /\ consecutive_failures = 0
    /\ monitor_thread = 0
    /\ callback_on_disconnect \in Callbacks
    /\ attached \in BOOLEAN
    /\ loop_pc = [t \in LoopIds |-> "unborn"]
    /\ cb_calls = [t \in LoopIds |-> 0]
    /\ cb_ended = [t \in LoopIds |-> "no"]
    /\ checked_after_cb = [t \in LoopIds |-> FALSE]
    /\ streak = 0
    /\ stopped = [t \in LoopIds |-> "no"]
    /\ shutdown = "no"
    /\ chaos_running = (callback_on_disconnect = "emergency_shutdown")
    /\ sdr_last = <<>>

\* A monitor thread that has started and not left _monitor_loop
Running(t) == loop_pc[t] \in {"test", "check", "callback", "sleep"}

\* A call of the GUI thread, with what held when it was made
LastCall(op, started, status) ==
    <<[op |-> op, started |-> started, status |-> status,
       was_monitoring |-> is_monitoring,
       was_running |-> \E t \in LoopIds : Running(t)]>>

\* lines 93-102; `started` is the thread created, 0 if none
start_monitoring ==
    IF is_monitoring
    THEN /\ sdr_last' = LastCall("start", 0, <<>>)
         /\ UNCHANGED <<is_monitoring, monitor_thread, loop_pc>>
    ELSE \E n \in LoopIds :
            /\ loop_pc[n] = "unborn"
            /\ \A m \in LoopIds : m < n => loop_pc[m] # "unborn"
            /\ is_monitoring' = TRUE
            /\ monitor_thread' = n
            /\ loop_pc' = [loop_pc EXCEPT ![n] = "test"]
            /\ sdr_last' = LastCall("start", n, <<>>)

StartMonitoring ==
    /\ start_monitoring
    /\ UNCHANGED <<envVars, ampVars, tagVars, stopped, hackrf_detected,
                   consecutive_failures, callback_on_disconnect, attached,
                   cb_calls, cb_ended, checked_after_cb, streak, shutdown,
                   chaos_running>>

\* lines 104-109, called by thread `caller` (0 is the GUI thread):
\* join(timeout=1) returns whether or not the loop has ended, and raises
\* RuntimeError when the thread to join is the calling thread
stop_monitoring(caller) ==
    [is_monitoring |-> FALSE,
     raises |-> monitor_thread # 0 /\ monitor_thread = caller]

\* The threads inside the loop when stop_monitoring is called
MarkStopped ==
    [t \in LoopIds |->
        IF Running(t) /\ stopped[t] = "no"
        THEN "stopped" ELSE stopped[t]]

StopMonitoring ==
    /\ is_monitoring' = stop_monitoring(0).is_monitoring
    /\ stopped' = MarkStopped
    /\ sdr_last' = LastCall("stop", 0, <<>>)
    /\ UNCHANGED <<envVars, ampVars, tagVars, hackrf_detected,
                   consecutive_failures, monitor_thread,
                   callback_on_disconnect, attached, loop_pc, cb_calls,
                   cb_ended, checked_after_cb, streak, shutdown,
                   chaos_running>>

\* lines 75-91: detect_hackrf on the GUI thread
InitialHardwareCheck ==
    LET d == detect_hackrf(attached, consecutive_failures)
    IN  /\ hackrf_detected' = d.hackrf_detected
        /\ consecutive_failures' = d.consecutive_failures
        /\ sdr_last' = LastCall("check", 0, <<>>)
        /\ UNCHANGED <<envVars, ampVars, tagVars, stopped, is_monitoring,
                       monitor_thread, callback_on_disconnect, attached,
                       loop_pc, cb_calls, cb_ended, checked_after_cb, streak,
                       shutdown, chaos_running>>

GetStatus ==
    /\ sdr_last' = LastCall("status", 0, <<get_status>>)
    /\ UNCHANGED <<envVars, ampVars, tagVars, stopped, is_monitoring,
                   hackrf_detected, consecutive_failures, monitor_thread,
                   callback_on_disconnect, attached, loop_pc, cb_calls,
                   cb_ended, checked_after_cb, streak, shutdown,
                   chaos_running>>

\* The device is pulled or plugged back in
Unplug ==
    /\ attached
    /\ attached' = FALSE
    /\ UNCHANGED <<envVars, ampVars, tagVars, stopped, is_monitoring,
                   hackrf_detected, consecutive_failures, monitor_thread,
                   callback_on_disconnect, loop_pc, cb_calls, cb_ended,
                   checked_after_cb, streak, shutdown, chaos_running,
                   sdr_last>>

Plug ==
    /\ ~attached
    /\ attached' = TRUE
    /\ UNCHANGED <<envVars, ampVars, tagVars, stopped, is_monitoring,
                   hackrf_detected, consecutive_failures, monitor_thread,
                   callback_on_disconnect, loop_pc, cb_calls, cb_ended,
                   checked_after_cb, streak, shutdown, chaos_running,
                   sdr_last>>

\* line 113: while self.is_monitoring
MonitorLoopTest(t) ==
    /\ loop_pc[t] = "test"
    /\ loop_pc' = [loop_pc EXCEPT
                      ![t] = IF is_monitoring THEN "check" ELSE "ended"]
    /\ stopped' = [stopped EXCEPT
                      ![t] = IF is_monitoring /\ @ = "stopped"
                             THEN "resumed" ELSE @]
    /\ UNCHANGED <<envVars, ampVars, tagVars, is_monitoring, hackrf_detected,
                   consecutive_failures, monitor_thread,
                   callback_on_disconnect, attached, cb_calls, cb_ended,
                   checked_after_cb, streak, shutdown, chaos_running,
                   sdr_last>>

\* lines 116-120 and 129-133: one hardware check and the count of failures
MonitorLoopCheck(t) ==
    LET d == detect_hackrf(attached, consecutive_failures)
        failures == IF d.ok THEN 0
                    ELSE Min(d.consecutive_failures + 1, MaxCount)
    IN  /\ loop_pc[t] = "check"
        /\ hackrf_detected' = d.hackrf_detected
        /\ consecutive_failures' = failures
        /\ streak' = IF d.ok THEN 0 ELSE Min(streak + 1, MaxCount)
        /\ checked_after_cb' =
               [checked_after_cb EXCEPT ![t] = @ \/ cb_ended[t] # "no"]
        /\ loop_pc' = [loop_pc EXCEPT
                          ![t] = IF ~d.ok /\ failures >= max_failures
                                 THEN "callback" ELSE "sleep"]
        /\ UNCHANGED <<envVars, ampVars, tagVars, stopped, is_monitoring,
                       monitor_thread, callback_on_disconnect, attached,
                       cb_calls, cb_ended, shutdown, chaos_running, sdr_last>>

\* emf_chaos_engine.py lines 1449-1481 on thread `caller`: the chaos thread is
\* stopped, stop_monitoring is called, and only if it returns are the dialog
\* (guarded by its own try) and sys.exit(1) reached
emergency_shutdown(caller) ==
    LET s == stop_monitoring(caller)
    IN  [chaos_running |-> FALSE,
         is_monitoring |-> s.is_monitoring,
         shutdown |-> IF s.raises THEN "join_raised" ELSE "exit"]

\* lines 120-128 and 138-140: the disconnect is logged and the callback
\* called; break follows when the callback returns (or there is none), an
\* Exception it raises is caught by the loop, SystemExit ends the thread
MonitorLoopCallback(t) ==
    /\ loop_pc[t] = "callback"
    /\ \/ /\ callback_on_disconnect = "none"
          /\ loop_pc' = [loop_pc EXCEPT ![t] = "ended"]
          /\ UNCHANGED <<cb_calls, cb_ended, is_monitoring, stopped, shutdown,
                         chaos_running>>
       \/ /\ callback_on_disconnect = "returns"
          /\ cb_calls' = [cb_calls EXCEPT ![t] = Saturate(@)]
          /\ cb_ended' = [cb_ended EXCEPT ![t] = "returned"]
          /\ loop_pc' = [loop_pc EXCEPT ![t] = "ended"]
          /\ UNCHANGED <<is_monitoring, stopped, shutdown, chaos_running>>
       \/ /\ callback_on_disconnect = "raises"
          /\ cb_calls' = [cb_calls EXCEPT ![t] = Saturate(@)]
          /\ cb_ended' = [cb_ended EXCEPT ![t] = "raised"]
          /\ loop_pc' = [loop_pc EXCEPT ![t] = "sleep"]
          /\ UNCHANGED <<is_monitoring, stopped, shutdown, chaos_running>>
       \/ /\ callback_on_disconnect = "emergency_shutdown"
          /\ LET e == emergency_shutdown(t)
             IN  /\ chaos_running' = e.chaos_running
                 /\ is_monitoring' = e.is_monitoring
                 /\ stopped' = MarkStopped
                 /\ shutdown' = e.shutdown
                 /\ cb_calls' = [cb_calls EXCEPT ![t] = Saturate(@)]
                 /\ cb_ended' = [cb_ended EXCEPT
                                    ![t] = IF e.shutdown = "exit"
                                           THEN "exited" ELSE "raised"]
                 /\ loop_pc' = [loop_pc EXCEPT
                                   ![t] = IF e.shutdown = "exit"
                                          THEN "ended" ELSE "sleep"]
    /\ UNCHANGED <<envVars, ampVars, tagVars, hackrf_detected,
                   consecutive_failures, monitor_thread,
                   callback_on_disconnect, attached, checked_after_cb, streak,
                   sdr_last>>

\* lines 136 and 140: time.sleep(self.check_interval)
MonitorLoopSleep(t) ==
    /\ loop_pc[t] = "sleep"
    /\ loop_pc' = [loop_pc EXCEPT ![t] = "test"]
    /\ UNCHANGED <<envVars, ampVars, tagVars, stopped, is_monitoring,
                   hackrf_detected, consecutive_failures, monitor_thread,
                   callback_on_disconnect, attached, cb_calls, cb_ended,
                   checked_after_cb, streak, shutdown, chaos_running,
                   sdr_last>>

MonitorLoop(t) ==
    \/ MonitorLoopTest(t)
    \/ MonitorLoopCheck(t)
    \/ MonitorLoopCallback(t)
    \/ MonitorLoopSleep(t)

NextMonitor ==
    \/ StartMonitoring
    \/ StopMonitoring
    \/ InitialHardwareCheck
    \/ GetStatus
    \/ Unplug
    \/ Plug
    \/ \E t \in LoopIds : MonitorLoop(t)

SpecMonitor == InitMonitor /\ [][NextMonitor]_vars

\* C24: the callback is invoked only after max_failures (3) consecutive failed
\* checks of the monitor loop with no successful one in between, every
\* successful check resets consecutive_failures to 0, and
\* consecutive_failures never exceeds max_failures while the loop runs.
C24_CallbackAfterMaxFailures ==
    /\ \A t \in LoopIds : loop_pc[t] = "callback" => streak >= max_failures
    /\ hackrf_detected => consecutive_failures = 0
    /\ (\E t \in LoopIds : Running(t)) =>
           consecutive_failures <= max_failures

\* Every started monitor thread keeps being scheduled
FairSpecMonitor ==
    SpecMonitor /\ \A t \in LoopIds : WF_vars(MonitorLoop(t))

\* C25: if detection keeps failing while monitoring is active the callback is
\* eventually invoked (no monitor thread stays in its loop for ever, with the
\* device away and monitoring on, without having called it), the callback is
\* invoked at most once per start_monitoring, and once it has returned or
\* raised the loop makes no further hardware check.
C25_CallbackOnceThenNoChecks ==
    /\ \A t \in LoopIds :
          []<>(\/ ~Running(t)
               \/ attached
               \/ ~is_monitoring
               \/ callback_on_disconnect = "none"
               \/ cb_calls[t] >= 1)
    /\ [](\A t \in LoopIds : cb_calls[t] <= 1 /\ ~checked_after_cb[t])

\* C26: when a monitor thread detects the disconnect and calls
\* emergency_shutdown as its callback, emergency_shutdown runs to completion:
\* the chaos thread is stopped, stop_monitoring returns normally, and the
\* forced exit is reached.
C26_EmergencyShutdownCompletes ==
    \A t \in LoopIds :
        (callback_on_disconnect = "emergency_shutdown" /\ cb_ended[t] # "no")
            => /\ ~chaos_running
               /\ cb_ended[t] = "exited"
               /\ shutdown = "exit"

\* A monitor thread that is past the while test: checking the hardware or
\* handling the disconnect
Polling(t) == loop_pc[t] \in {"check", "callback"}

\* C27: over any interleaving of start_monitoring and stop_monitoring at most
\* one monitor thread is polling the hardware at any time: start_monitoring
\* while monitoring starts no second thread, and a loop stopped by
\* stop_monitoring never resumes polling after a later start_monitoring.
C27_AtMostOneLoopPolling ==
    /\ Cardinality({t \in LoopIds : Polling(t)}) <= 1
    /\ (sdr_last # <<>> /\ sdr_last[1].op = "start"
          /\ sdr_last[1].was_monitoring) => sdr_last[1].started = 0
    /\ \A t \in LoopIds : stopped[t] # "resumed"

\* C28: get_status().is_monitoring is true only while a monitor loop is
\* running: once the loop has ended, through stop_monitoring or through
\* disconnect detection, is_monitoring is false and a subsequent
\* start_monitoring starts a new monitor loop.
C28_MonitoringFlagMeansLoopRuns ==
    /\ is_monitoring => \E t \in LoopIds : Running(t)
    /\ sdr_last # <<>> =>
          /\ (sdr_last[1].op = "status"
                 /\ sdr_last[1].status[1].is_monitoring)
                => sdr_last[1].was_running
          /\ (sdr_last[1].op = "start" /\ ~sdr_last[1].was_running)
                => sdr_last[1].started # 0

-----------------------------------------------------------------------------
(* SpecTracker: AirTagTracker of src/airtag_tracker.py.  The monitor loop
   hands each scan result to _process_detected_trackers; block_tracker and
   emergency_block_all are called by the user in between. *)

\* A tracker dict; reader_type "absent" and signal_strength Missing stand for
\* a dict without the key
Tracker(id, type, signal_strength, reader_type) ==
    [id |-> id, type |-> type, signal_strength |-> signal_strength,
     reader_type |-> reader_type]

Trackers ==
    { Tracker("ble_airtag_sim", "airtag", Num(-45), "absent"),
      Tracker("ble_tile_sim", "tile", Num(-30), "absent"),
      Tracker("rf_uhf_915", "rf_reader", Num(-25), "UHF_RFID"),
      Tracker("rf_uhf_915", "rf_reader", Num(-60), "UHF_RFID"),
      Tracker("rf_wifi_2400", "rf_reader", Num(-18), "WiFi_Tracker"),
      Tracker("rf_wifi_2400", "rf_reader", Missing, "WiFi_Tracker") }

TrackerIds == {tr.id : tr \in Trackers}

Batches == UNION {[1..k -> Trackers] : k \in 0..MaxBatch}

\* line 380: the test for a critical threat
Critical(tracker) ==
    \/ tracker.reader_type = "UHF_RFID"
    \/ Get(tracker.signal_strength, -100).n > -30

\* lines 392-406: what block_tracker leaves and returns
block_tracker(tracker_id, detected, blocked) ==
    IF tracker_id \in DOMAIN detected
    THEN [blocked |-> blocked \cup {tracker_id}, ret |-> TRUE]
    ELSE [blocked |-> blocked, ret |-> FALSE]

\* self.detected_trackers[tracker_id] = tracker
Store(detected, tracker) ==
    [x \in DOMAIN detected \cup {tracker.id} |->
        IF x = tracker.id THEN tracker ELSE detected[x]]

\* lines 412-423
get_tracker_stats(detected, blocked) ==
    LET count(type) ==
            Cardinality({x \in DOMAIN detected : detected[x].type = type})
    IN  [total_detected |-> Cardinality(DOMAIN detected),
         airtags        |-> count("airtag"),
         tiles          |-> count("tile"),
         rf_readers     |-> count("rf_reader"),
         blocked        |-> Cardinality(blocked),
         active_threats |->
             Cardinality({x \in DOMAIN detected : x \notin blocked})]

\* lines 371-383: the loop over the scan result
RECURSIVE process_detected_trackers(_, _, _, _)
process_detected_trackers(trackers, detected, blocked, new_detections) ==
    IF trackers = <<>>
    THEN [detected |-> detected, blocked |-> blocked,
          new_detections |-> new_detections]
    ELSE LET tracker == Head(trackers)
             is_new  == tracker.id \notin DOMAIN detected
         IN  process_detected_trackers(
                 Tail(trackers),
                 Store(detected, tracker),
                 IF is_new /\ Critical(tracker)
                 THEN block_tracker(tracker.id, detected, blocked).blocked
                 ELSE blocked,
                 IF is_new THEN Append(new_detections, tracker)
                 ELSE new_detections)

InitTracker ==
    /\ EnvIdle
    /\ AmpIdle
    /\ SdrIdle
    /\ TagIdle

TagCall(op, new_detections, detected, blocked) ==
    <<[op |-> op, new_detections |-> new_detections,
       blocked |-> blocked, stats |-> get_tracker_stats(detected, blocked)]>>

\* lines 367-390; the statistics are those handed to the callbacks
ProcessDetectedTrackers ==
    \E trackers \in Batches :
        LET r == process_detected_trackers(trackers, detected_trackers,
                                           blocked_trackers, <<>>)
        IN  /\ detected_trackers' = r.detected
            /\ blocked_trackers' = r.blocked
            /\ tag_last' = TagCall("process", r.new_detections, r.detected,
                                   r.blocked)
            /\ UNCHANGED <<envVars, ampVars, sdrVars>>

\* block_tracker called by the user
BlockTracker ==
    \E tracker_id \in TrackerIds :
        LET b == block_tracker(tracker_id, detected_trackers,
                               blocked_trackers)
        IN  /\ blocked_trackers' = b.blocked
            /\ tag_last' = TagCall("block", <<>>, detected_trackers, b.blocked)
            /\ UNCHANGED <<envVars, ampVars, sdrVars, detected_trackers>>

\* lines 429-439
EmergencyBlockAll ==
    /\ blocked_trackers' = blocked_trackers \cup DOMAIN detected_trackers
    /\ tag_last' = TagCall("block_all", <<>>, detected_trackers,
                           blocked_trackers \cup DOMAIN detected_trackers)
    /\ UNCHANGED <<envVars, ampVars, sdrVars, detected_trackers>>

NextTracker == ProcessDetectedTrackers \/ BlockTracker \/ EmergencyBlockAll

SpecTracker == InitTracker /\ [][NextTracker]_vars

\* C29: after _process_detected_trackers has handled a batch, every tracker
\* seen for the first time whose reader_type is UHF_RFID or whose
\* signal_strength is above -30 is in blocked_trackers and is not counted in
\* active_threats.
C29_CriticalNewTrackersBlocked ==
    (tag_last # <<>> /\ tag_last[1].op = "process") =>
        LET new == tag_last[1].new_detections
            critical == {new[i].id : i \in {j \in 1..Len(new) :
                                               Critical(new[j])}}
        IN  /\ critical \subseteq tag_last[1].blocked
            /\ tag_last[1].stats.active_threats
                   <= tag_last[1].stats.total_detected - Cardinality(critical)

====
